---- MODULE Spec2Model ----
(***************************************************************************)
(* Playback queue and streaming sequencer of gomusic (src/main.go).        *)
(*                                                                         *)
(* The control thread (bubbletea's Update) runs one key or message handler *)
(* at a time; the speaker's thread pulls chunks from the streamers it      *)
(* holds.  Decoder positions and lengths are counted in pulled chunks.     *)
(* Reals (the gain exponent) are kept in the log10 domain, in millionths.  *)
(*                                                                         *)
(* Spec and SpecVolume follow the queue handler by handler, with the       *)
(* notifications of finished tracks counted in msgs until Update takes     *)
(* them.  SpecThreads and the specifications after it follow the two       *)
(* threads step by step: the speaker's mutex, and program.Send, which      *)
(* returns only when bubbletea's loop has received the message.            *)
(***************************************************************************)
EXTENDS Integers, Naturals, Sequences, FiniteSets, TLC

VARIABLES queue, currentTrack, ctrl, volume, volumeChange, mixer,
          decoder, msgs,
          lock, todo, sinkpc, sinkAt, aliased, posted, nextBy

\* the queue, the speaker's mixer and the decoders
qvars == <<queue, currentTrack, ctrl, volume, volumeChange, mixer,
           decoder, msgs>>

\* the two threads: the speaker's mutex, what is left of the handler that
\* Update is running, the place of the speaker's pull, whether the mixer
\* holds the address of the gain stage this call of Update writes, the
\* notifications sent for each decoder since it was opened or rewound, and
\* whether the message Update received last was the key f ("key"), the "f"
\* of a callback ("sent") or another
tvars == <<lock, todo, sinkpc, sinkAt, aliased, posted, nextBy>>

vars == <<queue, currentTrack, ctrl, volume, volumeChange, mixer,
          decoder, msgs, lock, todo, sinkpc, sinkAt, aliased, posted,
          nextBy>>

\* ------------------------------------------------------------------ bounds
\* length of every track, in chunks pulled by the speaker
TrackLen == 2
\* largest volumeChange explored
MaxVolume == 10
\* end-of-track messages sent and not yet handled
MaxMsgs == 2
\* notifications counted for one decoder since it was opened or rewound
MaxPosted == 2

\* ------------------------------------------------------- program constants
basicSampleRate == 44100
\* lower limit of volumeChange in changeVolume
MinVolumeChange == -100

\* the nil beep.Streamer
NIL == [nil |-> TRUE, s |-> <<>>, i |-> 0]
\* a float64 in the log10 domain: v millionths, or -Inf
Float(v) == [inf |-> FALSE, v |-> v]

NegInf == [inf |-> TRUE, v |-> 0]

\* files the user can point the cursor at
Paths == {"d1/a.mp3", "d1/b.mp3", "d2/a.mp3"}

\* filepath.Base of the paths above
filepathBase(p) ==
  CASE p = "d1/a.mp3" -> "a.mp3"
    [] p = "d1/b.mp3" -> "b.mp3"
    [] p = "d2/a.mp3" -> "a.mp3"

Names == {filepathBase(p) : p \in Paths}

\* the decoders: the queue holds each path at most once, and a load takes the
\* first decoder that no queued track refers to; one more than there are
\* paths, for a load while the installed stream still holds removed tracks
Decoders == 1..(Cardinality(Paths) + 1)

\* sample rate mp3.Decode reports for a file
SampleRateOf(p) == IF p = "d1/b.mp3" THEN 48000 ELSE basicSampleRate

\* arguments the key handlers and the claims pass to changeVolume
Deltas == {-110, -100, -10, 10}

\* ------------------------------------------------------------- arithmetic
\* floor(10^6 * log10(n)) for n = 1..300
Log10Table == <<
    0, 301029, 477121, 602059, 698970, 778151, 845098, 903089, 954242, 1000000,
    1041392, 1079181, 1113943, 1146128, 1176091, 1204119, 1230448, 1255272, 1278753, 1301029,
    1322219, 1342422, 1361727, 1380211, 1397940, 1414973, 1431363, 1447158, 1462397, 1477121,
    1491361, 1505149, 1518513, 1531478, 1544068, 1556302, 1568201, 1579783, 1591064, 1602059,
    1612783, 1623249, 1633468, 1643452, 1653212, 1662757, 1672097, 1681241, 1690196, 1698970,
    1707570, 1716003, 1724275, 1732393, 1740362, 1748188, 1755874, 1763427, 1770852, 1778151,
    1785329, 1792391, 1799340, 1806179, 1812913, 1819543, 1826074, 1832508, 1838849, 1845098,
    1851258, 1857332, 1863322, 1869231, 1875061, 1880813, 1886490, 1892094, 1897627, 1903089,
    1908485, 1913813, 1919078, 1924279, 1929418, 1934498, 1939519, 1944482, 1949390, 1954242,
    1959041, 1963787, 1968482, 1973127, 1977723, 1982271, 1986771, 1991226, 1995635, 2000000,
    2004321, 2008600, 2012837, 2017033, 2021189, 2025305, 2029383, 2033423, 2037426, 2041392,
    2045322, 2049218, 2053078, 2056904, 2060697, 2064457, 2068185, 2071882, 2075546, 2079181,
    2082785, 2086359, 2089905, 2093421, 2096910, 2100370, 2103803, 2107209, 2110589, 2113943,
    2117271, 2120573, 2123851, 2127104, 2130333, 2133538, 2136720, 2139879, 2143014, 2146128,
    2149219, 2152288, 2155336, 2158362, 2161368, 2164352, 2167317, 2170261, 2173186, 2176091,
    2178976, 2181843, 2184691, 2187520, 2190331, 2193124, 2195899, 2198657, 2201397, 2204119,
    2206825, 2209515, 2212187, 2214843, 2217483, 2220108, 2222716, 2225309, 2227886, 2230448,
    2232996, 2235528, 2238046, 2240549, 2243038, 2245512, 2247973, 2250420, 2252853, 2255272,
    2257678, 2260071, 2262451, 2264817, 2267171, 2269512, 2271841, 2274157, 2276461, 2278753,
    2281033, 2283301, 2285557, 2287801, 2290034, 2292256, 2294466, 2296665, 2298853, 2301029,
    2303196, 2305351, 2307496, 2309630, 2311753, 2313867, 2315970, 2318063, 2320146, 2322219,
    2324282, 2326335, 2328379, 2330413, 2332438, 2334453, 2336459, 2338456, 2340444, 2342422,
    2344392, 2346352, 2348304, 2350248, 2352182, 2354108, 2356025, 2357934, 2359835, 2361727,
    2363611, 2365487, 2367355, 2369215, 2371067, 2372912, 2374748, 2376576, 2378397, 2380211,
    2382017, 2383815, 2385606, 2387389, 2389166, 2390935, 2392696, 2394451, 2396199, 2397940,
    2399673, 2401400, 2403120, 2404833, 2406540, 2408239, 2409933, 2411619, 2413299, 2414973,
    2416640, 2418301, 2419955, 2421603, 2423245, 2424881, 2426511, 2428134, 2429752, 2431363,
    2432969, 2434568, 2436162, 2437750, 2439332, 2440909, 2442479, 2444044, 2445604, 2447158,
    2448706, 2450249, 2451786, 2453318, 2454844, 2456366, 2457881, 2459392, 2460897, 2462397,
    2463892, 2465382, 2466867, 2468347, 2469822, 2471291, 2472756, 2474216, 2475671, 2477121
>>

Scale == Log10Table[10]

\* math.Log10 on a non-negative integer, in millionths; log10(0) = -Inf
Log10(x) == IF x = 0 THEN NegInf ELSE Float(Log10Table[x])

\* v - 2 on a float64 that may be -Inf
Minus2(v) == IF v.inf THEN NegInf ELSE Float(v.v - 2 * Scale)

\* math.Pow(volume.Base, v): volume.Base is 10, so in the log10 domain the
\* power of a float64 v (possibly -Inf) is v itself
Pow(v) == v

\* 100 * y for y in the log10 domain
Times100(y) == IF y.inf THEN NegInf ELSE Float(y.v + Log10Table[100])

\* int(y) without math.Round: the integer p with p <= y < p + 1
Round_Truncates(y, e) ==
  IF y.inf THEN 0
  ELSE LET w == y.v + e
       IN  IF w < Log10Table[1] THEN 0
           ELSE CHOOSE p \in 1..149 :
                  Log10Table[p] <= w /\ w < Log10Table[p + 1]

\* int(math.Round(y)) for y >= 0 in the log10 domain, e the float error in
\* millionths: 0 below 1/2, else the integer p with p - 1/2 <= y < p + 1/2,
\* i.e. log10(2p - 1) - log10(2) <= log10(y) < log10(2p + 1) - log10(2)
Round(y, e) ==
  IF y.inf THEN 0
  ELSE LET w == y.v + e
           lo(p) == Log10Table[2 * p - 1] - Log10Table[2]
       IN  IF w < lo(1) THEN 0
           ELSE CHOOSE p \in 1..149 : lo(p) <= w /\ w < lo(p + 1)

\* float error of a log/pow computation, in millionths
FloatErr == {-1, 0, 1}

\* ------------------------------------------------------------------ state
\* the program state as one record, so that methods compose
State ==
  [queue |-> queue, currentTrack |-> currentTrack, ctrl |-> ctrl,
   volume |-> volume, volumeChange |-> volumeChange, mixer |-> mixer,
   decoder |-> decoder, msgs |-> msgs]

\* the resampler beep.Resample(4, from, to, stream) builds
Resample(from, to) == [from |-> from, to |-> to]

newTrackQueue ==
  [queue |-> <<>>, currentTrack |-> 0,
   ctrl |-> [Streamer |-> NIL, Paused |-> FALSE],
   volume |-> [Volume |-> Float(0), Silent |-> FALSE],
   volumeChange |-> 0, mixer |-> <<>>,
   decoder |-> [i \in Decoders |-> [status |-> "none", pos |-> 0]],
   msgs |-> 0]

len(s) == Len(s.queue)

\* hasTrack whose loop returns after the first track
hasTrack_First(s, trackPath) ==
  len(s) > 0 /\ s.queue[1].path = trackPath

hasTrack(s, trackPath) == \E i \in 1..len(s) : s.queue[i].path = trackPath

\* decoders the queue refers to
Queued(s) == {s.queue[i].stream : i \in 1..len(s)}

\* the decoder a load opens
newId(s) ==
  CHOOSE i \in Decoders :
    i \notin Queued(s) /\ \A j \in 1..(i - 1) : j \in Queued(s)

\* the track loadTrack returns for an mp3 file
loadTrack(s, trackPath) ==
  [path |-> trackPath, stream |-> newId(s), format |-> SampleRateOf(trackPath),
   resampled |-> Resample(SampleRateOf(trackPath), basicSampleRate),
   ended |-> FALSE]

\* mp3.Decode in loadTrack opens the decoder of the track
openDecoder(s, track) ==
  [s EXCEPT !.decoder[track.stream] = [status |-> "open", pos |-> 0]]

\* speaker.Clear that leaves the mixer as it is
speakerClear_Keeps(s) == s

\* speaker.Clear and speaker.Play(&s.volume): the mixer holds the gain stages
\* it plays, each reading s.ctrl
speakerClear(s) == [s EXCEPT !.mixer = <<>>]

speakerPlay(s) == [s EXCEPT !.mixer = Append(@, s.volume)]

\* the items of beep.Seq(beep.Seq(track.resampled, beep.Callback(..)), ...)
\* over the tracks not ended, and the index of the item being streamed
SeqOf(tracks) ==
  [nil |-> FALSE,
   s |-> [k \in 1..2 * Len(tracks) |->
            IF k % 2 = 1
              THEN [type |-> "track", ref |-> tracks[(k + 1) \div 2].stream]
              ELSE [type |-> "callback", ref |-> tracks[k \div 2].stream]],
   i |-> 0]

NotEnded(t) == ~t.ended

\* rebuildStreamer without the test of ended
rebuildStreamer_All(s) ==
  [s EXCEPT !.ctrl.Streamer = SeqOf(s.queue)]

rebuildStreamer(s) ==
  [s EXCEPT !.ctrl.Streamer = SeqOf(SelectSeq(s.queue, NotEnded))]

play(s) ==
  LET c == speakerClear(s)
  IN  IF len(c) # 0 THEN speakerPlay(c) ELSE c

addTrack(s, track) ==
  rebuildStreamer([s EXCEPT !.queue = Append(@, track)])

\* nextTrack that returns at the last index before it marks the track
nextTrack_MarkWhenAdvancing(s) ==
  IF s.currentTrack + 1 >= len(s)
    THEN s
    ELSE play(speakerClear(rebuildStreamer(
           [s EXCEPT !.queue[s.currentTrack + 1].ended = TRUE,
                     !.currentTrack = @ + 1])))

nextTrack(s) ==
  LET m == IF len(s) # 0
             THEN [s EXCEPT !.queue[s.currentTrack + 1].ended = TRUE]
             ELSE s
  IN  IF m.currentTrack + 1 >= len(m)
        THEN m
        ELSE play(speakerClear(rebuildStreamer(
               [m EXCEPT !.currentTrack = @ + 1])))

\* prevTrack that marks the track it leaves as ended, as nextTrack does
prevTrack_EndsLeft(s) ==
  IF s.currentTrack - 1 < 0
    THEN s
    ELSE LET m == [s EXCEPT !.currentTrack = @ - 1,
                            !.queue[s.currentTrack + 1].ended = TRUE,
                            !.queue[s.currentTrack].ended = FALSE]
         IN  play(speakerClear(rebuildStreamer(m)))

prevTrack(s) ==
  IF s.currentTrack - 1 < 0
    THEN s
    ELSE LET m == [s EXCEPT !.currentTrack = @ - 1,
                            !.queue[s.currentTrack].ended = FALSE]
         IN  play(speakerClear(rebuildStreamer(m)))

\* stream.Position() == stream.Len()
AtEnd(s, id) == s.decoder[id].pos = TrackLen

\* restartTrack that leaves the ended flag as it is
restartTrack_KeepEnded(s, index) ==
  LET currentSong == s.queue[index + 1]
      ended == AtEnd(s, currentSong.stream)
      m == [s EXCEPT !.decoder[currentSong.stream].pos = 0]
  IN  IF ended
        THEN play(rebuildStreamer(
               [m EXCEPT !.queue[index + 1].resampled =
                           Resample(basicSampleRate, currentSong.format)]))
        ELSE m

\* restartTrack that rebuilds and plays whether the track had ended or not
restartTrack_Always(s, index) ==
  LET currentSong == s.queue[index + 1]
      m == [s EXCEPT !.queue[index + 1].ended = FALSE,
                     !.decoder[currentSong.stream].pos = 0]
  IN  play(rebuildStreamer(
        [m EXCEPT !.queue[index + 1].resampled =
                    Resample(basicSampleRate, currentSong.format)]))

restartTrack(s, index) ==
  LET currentSong == s.queue[index + 1]
      ended == AtEnd(s, currentSong.stream)
      m == [s EXCEPT !.queue[index + 1].ended = FALSE,
                     !.decoder[currentSong.stream].pos = 0]
  IN  IF ended
        THEN play(rebuildStreamer(
               [m EXCEPT !.queue[index + 1].resampled =
                           Resample(basicSampleRate, currentSong.format)]))
        ELSE m

restartCurrentTrack(s) ==
  IF len(s) = 0 THEN s ELSE restartTrack(s, s.currentTrack)

RECURSIVE restartFrom(_, _)
\* the loop of restartQueue from index i on
restartFrom(s, i) ==
  IF i >= len(s) THEN s ELSE restartFrom(restartTrack(s, i), i + 1)

\* restartQueue without its last rebuild
restartQueue_NoRebuild(s) ==
  [restartFrom(s, 0) EXCEPT !.currentTrack = 0]

restartQueue(s) ==
  rebuildStreamer([restartFrom(s, 0) EXCEPT !.currentTrack = 0])

\* the gain exponent changeVolume stores: math.Log10(100 + volumeChange) - 2
GainOf(volumeChange_) == Minus2(Log10(100 + volumeChange_))

\* changeVolume that also rejects a change to the limit itself
changeVolume_RejectsLimit(s, percents) ==
  IF s.volumeChange + percents <= MinVolumeChange
    THEN s
    ELSE LET vc == s.volumeChange + percents
             m == [s EXCEPT !.volumeChange = vc,
                            !.volume.Silent = (vc = MinVolumeChange),
                            !.volume.Volume = GainOf(vc)]
         IN  speakerPlay(speakerClear(m))

\* changeVolume that sets the mute flag at the limit and never clears it
changeVolume_StaysSilent(s, percents) ==
  IF s.volumeChange + percents < MinVolumeChange
    THEN s
    ELSE LET vc == s.volumeChange + percents
             m == [s EXCEPT !.volumeChange = vc,
                            !.volume.Silent = (@ \/ vc = MinVolumeChange),
                            !.volume.Volume = GainOf(vc)]
         IN  speakerPlay(speakerClear(m))

changeVolume(s, percents) ==
  IF s.volumeChange + percents < MinVolumeChange
    THEN s
    ELSE LET vc == s.volumeChange + percents
             m == [s EXCEPT !.volumeChange = vc,
                            !.volume.Silent = (vc = MinVolumeChange),
                            !.volume.Volume = GainOf(vc)]
         IN  speakerPlay(speakerClear(m))

\* getVolumePercents, e the float error of the computation
getVolumePercents(s, e) == Round(Times100(Pow(s.volume.Volume)), e)

unpause(s) == [s EXCEPT !.ctrl.Paused = FALSE]

pause(s) == [s EXCEPT !.ctrl.Paused = TRUE]

paused(s) == s.ctrl.Paused

\* index (from 0) of the first track whose base name is trackName, or -1
trackIndexOf(s, trackName) ==
  LET hits == {i \in 1..len(s) : filepathBase(s.queue[i].path) = trackName}
  IN  IF hits = {} THEN -1
      ELSE (CHOOSE i \in hits : \A j \in hits : i <= j) - 1

\* slices.Delete(q, i, i + 1), i from 0
Delete(q, i) == SubSeq(q, 1, i) \o SubSeq(q, i + 2, Len(q))

\* removeTrack that leaves currentTrack where it is
removeTrack_NoAnchor(s, trackName) ==
  LET trackIndex == trackIndexOf(s, trackName)
  IN  IF trackIndex = -1
        THEN s
        ELSE [s EXCEPT !.queue = Delete(@, trackIndex)]

\* removeTrack whose loop does not break at the first match
removeTrack_LastMatch(s, trackName) ==
  LET hits == {i \in 1..len(s) : filepathBase(s.queue[i].path) = trackName}
      trackIndex == IF hits = {} THEN -1
                    ELSE (CHOOSE i \in hits : \A j \in hits : i >= j) - 1
      prev == IF trackIndex <= 0 THEN 0 ELSE trackIndex - 1
  IN  IF trackIndex = -1
        THEN s
        ELSE [s EXCEPT !.currentTrack = prev,
                       !.queue = Delete(@, trackIndex)]

removeTrack(s, trackName) ==
  LET trackIndex == trackIndexOf(s, trackName)
      prev == IF trackIndex <= 0 THEN 0 ELSE trackIndex - 1
  IN  IF trackIndex = -1
        THEN s
        ELSE [s EXCEPT !.currentTrack = prev,
                       !.queue = Delete(@, trackIndex)]

RECURSIVE closeFrom(_, _)
\* the loop of clear closing the decoders from index i (from 1) on
closeFrom(s, i) ==
  IF i > len(s) THEN s
  ELSE closeFrom([s EXCEPT !.decoder[s.queue[i].stream].status = "closed"],
                 i + 1)

clear(s) ==
  [closeFrom(s, 1) EXCEPT !.ctrl.Streamer = NIL,
                          !.currentTrack = 0,
                          !.queue = <<>>]

\* ------------------------------------------------------ the speaker's pull
RECURSIVE seqStream(_)
\* one chunk pulled from the installed beep.Seq: a drained (or closed) track
\* yields nothing and the Seq moves on to its callback, which sends "f", and
\* then to the next track
seqStream(s) ==
  LET st == s.ctrl.Streamer
  IN  IF st.i >= Len(st.s)
        THEN [state |-> s, ok |-> FALSE]
        ELSE LET it == st.s[st.i + 1]
                 skip == [s EXCEPT !.ctrl.Streamer.i = @ + 1]
             IN  IF it.type = "callback"
                   THEN seqStream([skip EXCEPT !.msgs = @ + 1])
                   ELSE IF /\ s.decoder[it.ref].status = "open"
                           /\ s.decoder[it.ref].pos < TrackLen
                          THEN [state |-> [s EXCEPT
                                          !.decoder[it.ref].pos = @ + 1],
                                ok |-> TRUE]
                          ELSE seqStream(skip)

\* beep.Ctrl.Stream
ctrlStream(s) ==
  IF s.ctrl.Streamer.nil THEN [state |-> s, ok |-> FALSE]
  ELSE IF s.ctrl.Paused THEN [state |-> s, ok |-> TRUE]
  ELSE seqStream(s)

RECURSIVE mixerStream(_, _)
\* the mixer streams one chunk from each gain stage from k on, and drops
\* those that are drained
mixerStream(s, k) ==
  IF k > Len(s.mixer) THEN s
  ELSE LET r == ctrlStream(s)
       IN  IF r.ok
             THEN mixerStream(r.state, k + 1)
             ELSE mixerStream([r.state EXCEPT !.mixer =
                                 SubSeq(@, 1, k - 1) \o SubSeq(@, k + 1, Len(@))],
                              k)

\* ---------------------------------------------------------------- actions
Assign(s) ==
  /\ queue' = s.queue
  /\ currentTrack' = s.currentTrack
  /\ ctrl' = s.ctrl
  /\ volume' = s.volume
  /\ volumeChange' = s.volumeChange
  /\ mixer' = s.mixer
  /\ decoder' = s.decoder
  /\ msgs' = s.msgs

\* a handler run as one step, the threads left where they are
Set(s) == Assign(s) /\ UNCHANGED tvars

Init ==
  /\ queue = newTrackQueue.queue
  /\ currentTrack = newTrackQueue.currentTrack
  /\ ctrl = newTrackQueue.ctrl
  /\ volume = newTrackQueue.volume
  /\ volumeChange = newTrackQueue.volumeChange
  /\ mixer = newTrackQueue.mixer
  /\ decoder = newTrackQueue.decoder
  /\ msgs = newTrackQueue.msgs
  /\ lock = "free"
  /\ todo = <<>>
  /\ sinkpc = "idle"
  /\ sinkAt = 0
  /\ aliased = FALSE
  /\ posted = [d \in Decoders |-> 0]
  /\ nextBy = ""

\* key " " on a file of the current directory: a queued path is skipped, any
\* other is loaded, added and played
KeySpace ==
  \E p \in Paths :
    IF hasTrack(State, p)
      THEN Set(State)
      ELSE LET track == loadTrack(State, p)
           IN  Set(play(addTrack(openDecoder(State, track), track)))

\* key "d" on a file name of the current directory
KeyD == \E n \in Names : Set(removeTrack(State, n))

\* key "f"
KeyF == Set(nextTrack(State))

\* the message "f" a callback sent, handled by Update
MsgF ==
  /\ msgs > 0
  /\ Set(nextTrack([State EXCEPT !.msgs = @ - 1]))

\* key "F"
KeyShiftF == Set(prevTrack(State))

\* key "r"
KeyR == Set(restartCurrentTrack(State))

\* key "R"
KeyShiftR == Set(restartQueue(State))

\* key "c"
KeyC == Set(clear(State))

\* key "p"
KeyP ==
  IF paused(State) THEN Set(unpause(State)) ELSE Set(pause(State))

\* keys "]" and "[", and the other deltas changeVolume accepts
KeyVolume ==
  \E d \in Deltas :
    /\ volumeChange + d <= MaxVolume
    /\ Set(changeVolume(State, d))

\* the speaker's thread pulls one chunk from every streamer of its mixer
SinkPull ==
  /\ mixer # <<>>
  /\ mixerStream(State, 1).msgs <= MaxMsgs
  /\ Set(mixerStream(State, 1))

\* the queue: loading, navigation and the speaker
Next ==
  \/ KeySpace
  \/ KeyD
  \/ KeyF
  \/ MsgF
  \/ KeyShiftF
  \/ KeyR
  \/ KeyShiftR
  \/ KeyC
  \/ SinkPull

Spec == Init /\ [][Next]_vars

\* the transport: volume and pause, over a queue that is loaded and cleared
NextVolume ==
  \/ KeyVolume
  \/ KeyP
  \/ KeySpace
  \/ KeyC
  \/ MsgF
  \/ SinkPull

SpecVolume == Init /\ [][NextVolume]_vars

\* ------------------------------------------------------------ the threads
\* Update runs its handler one step at a time while the speaker's thread
\* pulls.  A step is a call the speaker can observe or has to wait for: the
\* mutex, a write to ctrl, to a gain stage or to a decoder, a call of the
\* speaker.  What a handler does to the queue alone is part of the step
\* that receives its message.
Op(o, a) == [op |-> o, arg |-> a]

\* the decoders the installed stream refers to
StreamRefs(s) ==
  IF s.ctrl.Streamer.nil THEN {}
  ELSE {s.ctrl.Streamer.s[k].ref : k \in 1..Len(s.ctrl.Streamer.s)}

\* the decoder a load opens while the speaker may be streaming a Seq that
\* still holds tracks removed from the queue
freshId(s) ==
  CHOOSE i \in Decoders :
    /\ i \notin Queued(s) \cup StreamRefs(s)
    /\ \A j \in 1..(i - 1) : j \in Queued(s) \cup StreamRefs(s)

\* rebuildStreamer: the Seq is built, then installed under the mutex
rebuildOps == <<Op("Lock", 0), Op("Install", 0), Op("Unlock", 0)>>

playOps == <<Op("Clear", 0), Op("Play", 0)>>

\* what Update does on receiving a message: a state and the steps to run
Handler(s, ops) == [state |-> s, todo |-> ops]

\* Update has a value receiver: each call works on its own copy of appState,
\* so the gain stage it writes is not the one the mixer holds
updateCopy_Pointer(al) == al

updateCopy(al) == FALSE

addStart(s, p) ==
  IF hasTrack(s, p)
    THEN Handler(s, <<>>)
    ELSE LET track == [loadTrack(s, p) EXCEPT !.stream = freshId(s)]
             o == openDecoder(s, track)
         IN  Handler([o EXCEPT !.queue = Append(@, track)],
                     rebuildOps \o playOps)

nextStart(s) ==
  LET m == IF len(s) # 0
             THEN [s EXCEPT !.queue[s.currentTrack + 1].ended = TRUE]
             ELSE s
  IN  IF m.currentTrack + 1 >= len(m)
        THEN Handler(m, <<>>)
        ELSE Handler([m EXCEPT !.currentTrack = @ + 1],
                     rebuildOps \o <<Op("Clear", 0)>> \o playOps)

prevStart(s) ==
  IF s.currentTrack - 1 < 0
    THEN Handler(s, <<>>)
    ELSE Handler([s EXCEPT !.currentTrack = @ - 1,
                           !.queue[s.currentTrack].ended = FALSE],
                 rebuildOps \o <<Op("Clear", 0)>> \o playOps)

\* restartTrack(index) starts by reading the position of the decoder
restartOps(index) == <<Op("Position", index)>>

\* what restartTrack does after Seek when the decoder was at its end
restartEndedOps(index) ==
  <<Op("Lock", 0), Op("Resample", index), Op("Unlock", 0)>>
    \o rebuildOps \o playOps

restartCurrentStart(s) ==
  IF len(s) = 0 THEN Handler(s, <<>>)
  ELSE Handler(s, restartOps(s.currentTrack))

restartQueueStart(s) ==
  Handler(s, [i \in 1..len(s) |-> Op("Position", i - 1)]
               \o <<Op("First", 0)>> \o rebuildOps)

clearStart(s) ==
  Handler(s, [i \in 1..len(s) |-> Op("Close", i)]
               \o <<Op("Lock", 0), Op("InstallNil", 0), Op("Unlock", 0),
                    Op("Reset", 0)>>)

pauseStart(s) ==
  Handler(s, <<Op("Lock", 0),
               Op(IF paused(s) THEN "Unpause" ELSE "Pause", 0),
               Op("Unlock", 0)>>)

changeVolumeStart(s, percents) ==
  IF s.volumeChange + percents < MinVolumeChange
    THEN Handler(s, <<>>)
    ELSE Handler([s EXCEPT !.volumeChange = @ + percents],
                 <<Op("SetGain", 0), Op("Clear", 0), Op("PlayAlways", 0)>>)

\* the state after the step o of a handler
stepState(s, o, al) ==
  CASE o.op = "Install" -> rebuildStreamer(s)
    [] o.op = "InstallNil" -> [s EXCEPT !.ctrl.Streamer = NIL]
    [] o.op = "Pause" -> pause(s)
    [] o.op = "Unpause" -> unpause(s)
    [] o.op = "Clear" -> speakerClear(s)
    [] o.op = "Play" -> IF len(s) # 0 THEN speakerPlay(s) ELSE s
    [] o.op = "PlayAlways" -> speakerPlay(s)
    [] o.op = "SetGain" ->
         LET v == [Volume |-> GainOf(s.volumeChange),
                   Silent |-> (s.volumeChange = MinVolumeChange)]
         IN  [s EXCEPT !.volume = v,
                       !.mixer = IF al THEN [k \in 1..Len(@) |-> v] ELSE @]
    [] o.op = "Position" -> [s EXCEPT !.queue[o.arg + 1].ended = FALSE]
    [] o.op = "Seek" ->
         [s EXCEPT !.decoder[s.queue[o.arg + 1].stream].pos = 0]
    [] o.op = "Resample" ->
         [s EXCEPT !.queue[o.arg + 1].resampled =
                     Resample(basicSampleRate, s.queue[o.arg + 1].format)]
    [] o.op = "Close" ->
         [s EXCEPT !.decoder[s.queue[o.arg].stream].status = "closed"]
    [] o.op = "Reset" -> [s EXCEPT !.currentTrack = 0, !.queue = <<>>]
    [] o.op = "First" -> [s EXCEPT !.currentTrack = 0]
    [] OTHER -> s

\* the steps that take the speaker's mutex, in main.go or inside the speaker
TakesLock == {"Lock", "Clear", "Play", "PlayAlways"}

\* the steps left after the step o: restartTrack goes on according to the
\* position it has read
stepRest(s, o, rest) ==
  IF o.op = "Position"
    THEN <<Op("Seek", o.arg)>>
           \o (IF AtEnd(s, s.queue[o.arg + 1].stream)
                 THEN restartEndedOps(o.arg) ELSE <<>>)
           \o rest
    ELSE rest

\* Update runs the next step of its handler
ControlStep ==
  /\ todo # <<>>
  /\ LET o == Head(todo)
     IN  /\ o.op \in TakesLock => lock = "free"
         /\ Assign(stepState(State, o, aliased))
         /\ todo' = stepRest(State, o, Tail(todo))
         /\ lock' = CASE o.op = "Lock" -> "control"
                      [] o.op = "Unlock" -> "free"
                      [] OTHER -> lock
         /\ aliased' = CASE o.op = "Clear" -> FALSE
                         [] o.op = "Play" -> (len(State) # 0 \/ aliased)
                         [] o.op = "PlayAlways" -> TRUE
                         [] OTHER -> aliased
         /\ posted' = IF o.op = "Seek"
                        THEN [posted EXCEPT ![queue[o.arg + 1].stream] = 0]
                        ELSE posted
         /\ UNCHANGED <<sinkpc, sinkAt, nextBy>>

\* Update receives a message and starts its handler
Receive(h, by) ==
  /\ todo = <<>>
  /\ Assign(h.state)
  /\ todo' = h.todo
  /\ aliased' = updateCopy(aliased)
  /\ nextBy' = by
  /\ UNCHANGED <<lock, sinkAt>>

\* a message of the keyboard other than the key f
Start(h) == Receive(h, "") /\ UNCHANGED sinkpc

\* the files of the directory the threads are followed over
ThreadPaths == {"d1/a.mp3", "d1/b.mp3"}

UpdateSpace ==
  \E p \in ThreadPaths :
    /\ Start(addStart(State, p))
    /\ posted' = IF hasTrack(State, p) THEN posted
                 ELSE [posted EXCEPT ![freshId(State)] = 0]

UpdateD ==
  /\ \E p \in ThreadPaths :
       Start(Handler(removeTrack(State, filepathBase(p)), <<>>))
  /\ UNCHANGED posted

UpdateF ==
  Receive(nextStart(State), "key") /\ UNCHANGED <<sinkpc, posted>>

UpdateShiftF == Start(prevStart(State)) /\ UNCHANGED posted

UpdateR == Start(restartCurrentStart(State)) /\ UNCHANGED posted

UpdateShiftR == Start(restartQueueStart(State)) /\ UNCHANGED posted

UpdateC == Start(clearStart(State)) /\ UNCHANGED posted

UpdateP == Start(pauseStart(State)) /\ UNCHANGED posted

UpdateVolume ==
  /\ \E d \in Deltas :
       /\ volumeChange + d <= MaxVolume
       /\ Start(changeVolumeStart(State, d))
  /\ UNCHANGED posted

RECURSIVE seqRun(_)
\* the installed beep.Seq streams until it has a chunk, is drained, or comes
\* to a callback, which calls program.Send
seqRun(s) ==
  LET st == s.ctrl.Streamer
  IN  IF st.i >= Len(st.s)
        THEN [state |-> s, res |-> "drained", ref |-> 0]
        ELSE LET it == st.s[st.i + 1]
             IN  IF it.type = "callback"
                   THEN [state |-> s, res |-> "send", ref |-> it.ref]
                   ELSE IF /\ s.decoder[it.ref].status = "open"
                           /\ s.decoder[it.ref].pos < TrackLen
                          THEN [state |-> [s EXCEPT
                                          !.decoder[it.ref].pos = @ + 1],
                                res |-> "ok", ref |-> it.ref]
                          ELSE seqRun([s EXCEPT !.ctrl.Streamer.i = @ + 1])

\* beep.Ctrl.Stream, up to a chunk, the end or a callback
ctrlRun(s) ==
  IF s.ctrl.Streamer.nil THEN [state |-> s, res |-> "drained", ref |-> 0]
  ELSE IF s.ctrl.Paused THEN [state |-> s, res |-> "ok", ref |-> 0]
  ELSE seqRun(s)

\* the speaker's thread takes its mutex to pull a chunk
SinkLock ==
  /\ sinkpc = "idle"
  /\ lock = "free"
  /\ lock' = "sink"
  /\ sinkpc' = "stream"
  /\ sinkAt' = 1
  /\ UNCHANGED <<qvars, todo, aliased, posted, nextBy>>

\* the locked pull: the mixer streams the gain stage sinkAt, drops it when it
\* is drained, and after the last stage the speaker gives the mutex back
SinkStream ==
  /\ sinkpc = "stream"
  /\ IF sinkAt > Len(mixer)
       THEN /\ lock' = "free"
            /\ sinkpc' = "idle"
            /\ sinkAt' = 0
            /\ UNCHANGED <<qvars, todo, aliased, posted, nextBy>>
       ELSE LET r == ctrlRun(State)
            IN  CASE r.res = "ok" ->
                       /\ Assign(r.state)
                       /\ sinkAt' = sinkAt + 1
                       /\ UNCHANGED <<lock, todo, sinkpc, aliased, posted, nextBy>>
                  [] r.res = "drained" ->
                       /\ Assign([r.state EXCEPT !.mixer =
                                    SubSeq(@, 1, sinkAt - 1)
                                      \o SubSeq(@, sinkAt + 1, Len(@))])
                       /\ aliased' = (aliased /\ Len(mixer) > 1)
                       /\ UNCHANGED <<lock, todo, sinkpc, sinkAt, posted,
                                      nextBy>>
                  [] r.res = "send" ->
                       /\ Assign(r.state)
                       /\ sinkpc' = "send"
                       /\ posted' = [posted EXCEPT ![r.ref] =
                                       IF @ < MaxPosted THEN @ + 1 ELSE @]
                       /\ UNCHANGED <<lock, todo, sinkAt, aliased, nextBy>>

\* program.Send("f") hands the message to Update, which has to be waiting for
\* one: Update starts nextTrack and the callback returns to the Seq
SinkSend ==
  /\ sinkpc = "send"
  /\ Receive(nextStart([State EXCEPT !.ctrl.Streamer.i = @ + 1]), "sent")
  /\ sinkpc' = "stream"
  /\ UNCHANGED posted

\* the queue and the two threads
NextThreads ==
  \/ UpdateSpace
  \/ UpdateD
  \/ UpdateF
  \/ UpdateShiftF
  \/ UpdateR
  \/ UpdateShiftR
  \/ UpdateC
  \/ ControlStep
  \/ SinkLock
  \/ SinkStream
  \/ SinkSend

SpecThreads == Init /\ [][NextThreads]_vars

\* the transport and the two threads
NextThreadsVolume ==
  \/ UpdateVolume
  \/ UpdateP
  \/ UpdateSpace
  \/ UpdateC
  \/ ControlStep
  \/ SinkLock
  \/ SinkStream
  \/ SinkSend

SpecThreadsVolume == Init /\ [][NextThreadsVolume]_vars

RECURSIVE addAll(_, _)
\* the queue after the space key on each file of ps in turn
addAll(s, ps) ==
  IF ps = <<>> THEN s
  ELSE LET track == loadTrack(s, Head(ps))
       IN  addAll(play(addTrack(openDecoder(s, track), track)), Tail(ps))

\* the orders in which files can have been queued
Orders ==
  {ps \in UNION {[1..n -> Paths] : n \in 1..Cardinality(Paths)} :
     \A i, j \in 1..Len(ps) : ps[i] = ps[j] => i = j}

\* some files have been queued and are playing from the start of the first
InitPlaying ==
  \E ps \in Orders :
    LET s == addAll(newTrackQueue, ps)
    IN  /\ queue = s.queue
        /\ currentTrack = s.currentTrack
        /\ ctrl = s.ctrl
        /\ volume = s.volume
        /\ volumeChange = s.volumeChange
        /\ mixer = s.mixer
        /\ decoder = s.decoder
        /\ msgs = s.msgs
        /\ lock = "free"
        /\ todo = <<>>
        /\ sinkpc = "idle"
        /\ sinkAt = 0
        /\ aliased = TRUE
        /\ posted = [d \in Decoders |-> 0]
        /\ nextBy = ""

\* the two threads with no key pressed
NextPlaying ==
  \/ ControlStep
  \/ SinkLock
  \/ SinkStream
  \/ SinkSend

\* each thread runs whenever it can: the speaker pulls on its clock and
\* bubbletea's loop receives and runs Update whenever a message is offered
SpecPlaying ==
  /\ InitPlaying
  /\ [][NextPlaying]_vars
  /\ WF_vars(ControlStep)
  /\ WF_vars(SinkLock)
  /\ WF_vars(SinkStream)
  /\ WF_vars(SinkSend)

\* the queue is loaded and the key f pressed while the two threads run
NextSkipping ==
  \/ UpdateSpace
  \/ UpdateF
  \/ ControlStep
  \/ SinkLock
  \/ SinkStream
  \/ SinkSend

SpecSkipping ==
  /\ Init
  /\ [][NextSkipping]_vars
  /\ WF_vars(ControlStep)
  /\ WF_vars(SinkLock)
  /\ WF_vars(SinkStream)
  /\ WF_vars(SinkSend)

\* ----------------------------------------------------------------- claims
\* the items of the installed stream not yet streamed
Remaining == SubSeq(ctrl.Streamer.s, ctrl.Streamer.i + 1, Len(ctrl.Streamer.s))

\* the decoders of the tracks the installed stream has yet to play
RemainingTracks ==
  {Remaining[k].ref : k \in {j \in 1..Len(Remaining) : Remaining[j].type = "track"}}

\* C1: whenever the queue is not empty, currentTrack is an index of it
C1_CurrentInRange ==
  Len(queue) > 0 => (0 <= currentTrack /\ currentTrack < Len(queue))

\* a removal left currentTrack on the last track of a shorter queue: the
\* installed stream still plays a track that is no longer queued
C1_Witness ==
  /\ Len(queue) = 2
  /\ currentTrack = 1
  /\ \E id \in RemainingTracks : id \notin Queued(State)

\* C2: next (key "f" or a handled message) on a queue that is not empty sets
\* ended on the track at currentTrack and changes no other track; at the last
\* index it leaves currentTrack and the installed stream alone, elsewhere it
\* adds one to currentTrack; on an empty queue it changes nothing.  From three
\* fresh tracks with currentTrack 0, two calls end the first two tracks, make
\* the third current and leave it alone in the installed stream.
C2_Next ==
  LET s == nextTrack(State)
      t == nextTrack(s)
  IN  /\ IF Len(queue) = 0
           THEN s = State
           ELSE /\ s.queue = [queue EXCEPT ![currentTrack + 1].ended = TRUE]
                /\ IF currentTrack = Len(queue) - 1
                     THEN s.currentTrack = currentTrack /\ s.ctrl = ctrl
                     ELSE s.currentTrack = currentTrack + 1
      /\ (/\ Len(queue) = 3
          /\ currentTrack = 0
          /\ \A i \in 1..3 : ~queue[i].ended)
         => /\ t.currentTrack = 2
            /\ t.queue[1].ended /\ t.queue[2].ended /\ ~t.queue[3].ended
            /\ [k \in 1..Len(t.ctrl.Streamer.s) |-> t.ctrl.Streamer.s[k].type]
                 = <<"track", "callback">>
            /\ t.ctrl.Streamer.s[1].ref = queue[3].stream
            /\ t.ctrl.Streamer.i = 0

\* two nexts from the head of three tracks: the third is current, the only
\* one not ended, and the only one installed
C2_Witness ==
  /\ Len(queue) = 3
  /\ currentTrack = 2
  /\ queue[1].ended /\ queue[2].ended /\ ~queue[3].ended
  /\ RemainingTracks = {queue[3].stream}
  /\ ctrl.Streamer.i = 0
  /\ Len(ctrl.Streamer.s) = 2

\* C3: previous (key "F") at currentTrack 0 changes nothing; elsewhere it
\* takes one from currentTrack, clears ended on the track it moves to and
\* leaves every other track, the one it leaves included, as it was
C3_Prev ==
  LET s == prevTrack(State)
  IN  IF currentTrack = 0
        THEN s = State
        ELSE /\ s.currentTrack = currentTrack - 1
             /\ s.queue = [queue EXCEPT ![currentTrack].ended = FALSE]

\* previous has moved from an ended last track to the head: the head is
\* installed alone and the track left is still ended
C3_Witness ==
  /\ Len(queue) = 2
  /\ currentTrack = 0
  /\ ~queue[1].ended /\ queue[2].ended
  /\ RemainingTracks = {queue[1].stream}
  /\ ctrl.Streamer.i = 0
  /\ decoder[queue[2].stream].pos = 0

RECURSIVE Composite(_)
\* the tracks of q that are not ended, in order, each with its callback
Composite(q) ==
  IF q = <<>> THEN <<>>
  ELSE (IF Head(q).ended THEN <<>>
        ELSE <<[type |-> "track", ref |-> Head(q).stream],
               [type |-> "callback", ref |-> Head(q).stream]>>)
       \o Composite(Tail(q))

\* s has installed, from its start, the stream of its queue
Installed(s) ==
  s.ctrl.Streamer = [nil |-> FALSE, s |-> Composite(s.queue), i |-> 0]

\* C4: after every rebuild (an add, a next before the last index, a previous
\* after the first, a restart of a finished track, a restart of the queue)
\* the installed stream is, from its start, the tracks of the queue that are
\* not ended, in queue order, each followed by its end-of-track callback
C4_Rebuild ==
  /\ \A p \in Paths :
       ~hasTrack(State, p) =>
         LET track == loadTrack(State, p)
         IN  Installed(play(addTrack(openDecoder(State, track), track)))
  /\ currentTrack + 1 < Len(queue) => Installed(nextTrack(State))
  /\ currentTrack > 0 => Installed(prevTrack(State))
  /\ \A i \in 0..(Len(queue) - 1) :
       AtEnd(State, queue[i + 1].stream) => Installed(restartTrack(State, i))
  /\ Installed(restartQueue(State))

\* a rebuild over a queue with an ended track and two that are not
C4_Witness ==
  /\ Len(queue) = 3
  /\ queue[1].ended /\ ~queue[2].ended /\ ~queue[3].ended
  /\ ctrl.Streamer = [nil |-> FALSE, s |-> Composite(queue), i |-> 0]
  /\ currentTrack = 1

\* C5: a track of the queue whose ended flag is set is not among the tracks
\* the installed stream has yet to play
C5_EndedNotInstalled ==
  \A i \in 1..Len(queue) : queue[i].ended => queue[i].stream \notin RemainingTracks

\* C6: a track of the queue whose ended flag is set has its decoder at the
\* end, Position() = Len()
C6_EndedAtEnd ==
  \A i \in 1..Len(queue) : queue[i].ended => AtEnd(State, queue[i].stream)

\* the decoders of the queued tracks whose ended flag is set
EndedTracks == {queue[i].stream : i \in {j \in 1..Len(queue) : queue[j].ended}}

\* C6, amended: the ended flag is set only by next, on the track at
\* currentTrack and whatever its position; a track that is ended with its
\* decoder at the end keeps the decoder there for as long as it stays ended
C6_EndedEffect ==
  /\ \A id \in EndedTracks' \ EndedTracks :
       /\ KeyF \/ MsgF
       /\ Len(queue) > 0
       /\ id = queue[currentTrack + 1].stream
  /\ \A id \in EndedTracks' \cap EndedTracks :
       AtEnd(State, id) => decoder'[id].pos = TrackLen

C6_EndedByNext == [][C6_EndedEffect]_vars

\* a next issued in the middle of a track has ended it
C6_Witness ==
  \E i \in 1..Len(queue) :
    /\ queue[i].ended
    /\ decoder[queue[i].stream].pos > 0
    /\ decoder[queue[i].stream].pos < TrackLen

\* C7: restart of a track whose decoder is not at the end changes nothing
\* but the ended flag of the track: not the decoder position, the resampler,
\* the installed stream or the mixer
C7_RestartOnlyClears ==
  \A i \in 0..(Len(queue) - 1) :
    ~AtEnd(State, queue[i + 1].stream) =>
      restartTrack(State, i) = [State EXCEPT !.queue[i + 1].ended = FALSE]

\* C7, amended: restart of a track whose decoder is not at the end clears the
\* ended flag of the track and seeks its decoder to 0, and changes nothing
\* else: not the resampler, the installed stream or the mixer
C7_RestartSeeks ==
  \A i \in 0..(Len(queue) - 1) :
    ~AtEnd(State, queue[i + 1].stream) =>
      restartTrack(State, i) =
        [State EXCEPT !.queue[i + 1].ended = FALSE,
                      !.decoder[queue[i + 1].stream].pos = 0]

\* a restart has cleared the ended flag of the current track and left the
\* stream alone: the track, at position 0, is not ended and not installed
C7_Witness ==
  /\ Len(queue) > 0
  /\ ~ctrl.Streamer.nil
  /\ ~queue[currentTrack + 1].ended
  /\ decoder[queue[currentTrack + 1].stream].pos = 0
  /\ \A k \in 1..Len(ctrl.Streamer.s) :
       ctrl.Streamer.s[k].ref # queue[currentTrack + 1].stream

\* the queue positions (from 1) of the tracks whose base name is n
Matches(n) == {i \in 1..Len(queue) : filepathBase(queue[i].path) = n}

\* C8: remove of a name no track has changes nothing; otherwise, with i the
\* first index (from 0) of a track of that name, it sets currentTrack to
\* i - 1 (0 for i = 0), deletes that one track, keeps the others in order
\* and leaves the installed stream and the mixer alone
C8_Remove ==
  \A n \in Names :
    LET s == removeTrack(State, n)
    IN  IF Matches(n) = {}
          THEN s = State
          ELSE \E i \in Matches(n) :
                 /\ \A j \in Matches(n) : i <= j
                 /\ s.currentTrack = IF i = 1 THEN 0 ELSE i - 2
                 /\ Len(s.queue) = Len(queue) - 1
                 /\ \A k \in 1..Len(s.queue) :
                      s.queue[k] = IF k < i THEN queue[k] ELSE queue[k + 1]
                 /\ s.ctrl = ctrl /\ s.mixer = mixer /\ s.decoder = decoder
                 /\ s.msgs = msgs

\* a track was removed from between two others while it was installed: the
\* stream still holds it, and currentTrack is on its predecessor
C8_Witness ==
  /\ Len(queue) = 2
  /\ currentTrack = 0
  /\ Len(ctrl.Streamer.s) = 6
  /\ ctrl.Streamer.s[1].ref = queue[1].stream
  /\ ctrl.Streamer.s[5].ref = queue[2].stream
  /\ ctrl.Streamer.s[3].ref \notin Queued(State)
  /\ filepathBase(queue[1].path) = filepathBase(queue[2].path)

\* C9: a change of the volume by d is rejected exactly when volumeChange + d
\* is below -100; a rejected change leaves volumeChange, the gain, the mute
\* flag and the mixer as they were, an accepted one adds d to volumeChange;
\* so volumeChange never goes below -100
C9_Change ==
  /\ volumeChange >= -100
  /\ \A d \in Deltas :
       LET s == changeVolume(State, d)
       IN  IF volumeChange + d < -100
             THEN s = State
             ELSE s.volumeChange = volumeChange + d

\* the volume was taken down to the limit, where the next step down is
\* rejected, and the muted gain stage is the one the mixer plays
C9_Witness ==
  /\ volumeChange = -100
  /\ volume.Silent
  /\ mixer = <<volume>>

\* C10: getVolumePercents returns 100 + volumeChange, whatever changes were
\* accepted and rejected before, and whatever the float error
C10_PercentInverts ==
  \A e \in FloatErr : getVolumePercents(State, e) = 100 + volumeChange

\* at the limit the gain is -Inf and the percentage 0
C10_Witness ==
  /\ volumeChange = -100
  /\ volume.Volume.inf
  /\ getVolumePercents(State, 0) = 0

\* C14: every decoder that is open belongs to a track of the queue: a track
\* that was removed or dropped by clear has had its decoder closed
C14_ClosedWhenDropped ==
  \A d \in Decoders : decoder[d].status = "open" => d \in Queued(State)

\* C15: the mixer holds at most one gain stage, and so it does after every
\* play and every change of the volume
C15_OneStage ==
  /\ Len(mixer) <= 1
  /\ Len(play(State).mixer) <= 1
  /\ \A d \in Deltas : Len(changeVolume(State, d).mixer) <= 1

\* the volume was changed while two tracks were queued and playing: the one
\* stage of the mixer is the gain stage with the changed volume
C15_Witness ==
  /\ Len(queue) = 2
  /\ volumeChange = 10
  /\ mixer = <<volume>>
  /\ ~ctrl.Streamer.nil

\* C18: no two tracks of the queue have the same path
C18_NoDuplicatePath ==
  \A i, j \in 1..Len(queue) : queue[i].path = queue[j].path => i = j

\* the three files were queued, two of them with the same base name, and each
\* of them is by now a path that hasTrack finds
C18_Witness ==
  /\ Len(queue) = 3
  /\ \A p \in Paths : hasTrack(State, p)
  /\ \E i, j \in 1..3 :
       i # j /\ filepathBase(queue[i].path) = filepathBase(queue[j].path)

\* C19: after restartQueue no track is ended, currentTrack is 0, the tracks
\* are those of before in the same order and the installed stream is, from
\* its start, every track of the queue in queue order; an empty queue stays
\* empty
C19_RestartAll ==
  LET s == restartQueue(State)
  IN  /\ s.currentTrack = 0
      /\ Len(s.queue) = Len(queue)
      /\ \A i \in 1..Len(queue) :
           /\ ~s.queue[i].ended
           /\ s.queue[i].path = queue[i].path
           /\ s.queue[i].stream = queue[i].stream
      /\ s.ctrl.Streamer = SeqOf(s.queue)

\* a queue that restartQueue has to bring back: the first two of its three
\* tracks are ended, the third is current and partly played, and the
\* installed stream holds the third alone
C19_Witness ==
  /\ Len(queue) = 3
  /\ queue[1].ended /\ queue[2].ended /\ ~queue[3].ended
  /\ currentTrack = 2
  /\ decoder[queue[3].stream].pos = 1
  /\ Len(ctrl.Streamer.s) = 2
  /\ restartQueue(State).ctrl.Streamer.s # ctrl.Streamer.s

\* the step Update is about to take writes a field of ctrl
WritesCtrl ==
  todo # <<>> /\ Head(todo).op \in {"Install", "InstallNil", "Pause", "Unpause"}

\* the step Update is about to take writes the gain factor and the mute flag
WritesGain == todo # <<>> /\ Head(todo).op = "SetGain"

\* C11: Update writes the installed stream, the pause flag and the gain
\* fields only while it holds the speaker's mutex
C11_WritesLocked == (WritesCtrl \/ WritesGain) => lock = "control"

\* C11, amended: Update writes the installed stream and the pause flag only
\* while it holds the speaker's mutex; it writes the gain fields without the
\* mutex, but only in a gain stage that the mixer does not hold
C11_SharedWritesLocked ==
  /\ WritesCtrl => lock = "control"
  /\ WritesGain => (lock = "control" \/ ~aliased)

\* Update is about to write the gain fields of its own copy while the
\* speaker, holding the mutex, is pulling from the gain stage of an earlier
\* call
C11_Witness ==
  /\ WritesGain
  /\ lock = "sink"
  /\ sinkpc = "stream"
  /\ Len(mixer) = 1
  /\ sinkAt = 1
  /\ ~aliased

\* C12: the speaker's thread is never inside program.Send, holding its
\* mutex, while Update is inside a handler at a step that waits for the mutex
C12_SendNeverBlocks ==
  ~(/\ sinkpc = "send"
    /\ lock = "sink"
    /\ todo # <<>>
    /\ Head(todo).op \in TakesLock)

\* the track the locked pull is about to stream has its decoder closed
PullsClosed ==
  /\ sinkpc = "stream"
  /\ sinkAt <= Len(mixer)
  /\ ~ctrl.Streamer.nil
  /\ ~ctrl.Paused
  /\ ctrl.Streamer.i < Len(ctrl.Streamer.s)
  /\ LET it == ctrl.Streamer.s[ctrl.Streamer.i + 1]
     IN  it.type = "track" /\ decoder[it.ref].status = "closed"

\* C13: the speaker never pulls from a track whose decoder clear has closed,
\* and clear leaves the queue empty, currentTrack 0 and the stream nil
C13_ClearAtomic ==
  /\ ~PullsClosed
  /\ LET s == clear(State)
     IN  s.queue = <<>> /\ s.currentTrack = 0 /\ s.ctrl.Streamer = NIL

\* C16: no decoder has more than one notification sent since it was opened
\* or last rewound
C16_OnePost == \A d \in Decoders : posted[d] <= 1

\* every track is ended and currentTrack is the last index
PlayedThrough ==
  /\ currentTrack = Len(queue) - 1
  /\ \A i \in 1..Len(queue) : queue[i].ended

NextDuringSend ==
  /\ sinkpc = "send"
  /\ nextBy = "key"
  /\ todo # <<>>

C21_SilentAtLimit ==
  /\ volume.Silent <=> (volumeChange = -100)
  /\ \A d \in Deltas :
       LET s == changeVolume(State, d)
       IN  s.volume.Silent <=> (s.volumeChange = -100)

\* the volume is at the limit with the flag set, and a step up is accepted
\* and clears it
C21_Witness ==
  /\ volumeChange = -100
  /\ volume.Silent
  /\ changeVolume(State, 10).volumeChange = -90
  /\ ~changeVolume(State, 10).volume.Silent

\* the tracks the installed stream has yet to play, in its order
RemainingTrackItems ==
  SelectSeq(Remaining, LAMBDA it : it.type = "track")

\* C22: when the queue is not empty and the installed stream has a track to
\* play, the first of them is the track at currentTrack
C22_CurrentIsPlaying ==
  (/\ Len(queue) > 0
   /\ ~ctrl.Streamer.nil
   /\ RemainingTrackItems # <<>>
   /\ currentTrack < Len(queue))
    => RemainingTrackItems[1].ref = queue[currentTrack + 1].stream

\* C23: restartTrack on a track whose decoder is at its end clears ended,
\* rewinds the decoder, builds the resampler as loadTrack does (from the
\* rate of the file to 44100), installs a stream that holds the track and
\* plays it
C23_RestartFinished ==
  \A i \in 0..(Len(queue) - 1) :
    AtEnd(State, queue[i + 1].stream) =>
      LET s == restartTrack(State, i)
          t == s.queue[i + 1]
      IN  /\ ~t.ended
          /\ s.decoder[t.stream].pos = 0
          /\ t.resampled = Resample(t.format, basicSampleRate)
          /\ \E k \in 1..Len(s.ctrl.Streamer.s) :
               s.ctrl.Streamer.s[k] = [type |-> "track", ref |-> t.stream]
          /\ s.mixer = <<s.volume>>

====
